---- MODULE Spec2Model ----
(***************************************************************************)
(* Model of server.mjs: a relay that verifies a Steam auth ticket with the *)
(* identity service and grants a random item of the reward pool through    *)
(* the inventory service.  Each request handler is an async function; a    *)
(* handler runs without interruption between two awaits, so every action   *)
(* below is the code between two suspension points of one handler.         *)
(***************************************************************************)
EXTENDS Integers, Sequences, FiniteSets, TLC

VARIABLES
    APPID,          \* const APPID = Number(process.env.APPID)
    PUBLISHER_KEY,  \* const PUBLISHER_KEY = process.env.PUBLISHER_KEY
    DROP_KEYS,      \* const DROP_KEYS = parseDropKeys(process.env.DROP_KEYS)
    ENABLE_LIMITER, \* const ENABLE_LIMITER
    envDropKeys,    \* process.env.DROP_KEYS
    booted,         \* the module's top-level code has run
    pc,             \* per request: where its handler is suspended
    op,             \* per request: the route it was posted to
    body,           \* per request: req.body
    v,              \* per request: the handler's local v (VerificationResult)
    g,              \* per request: the handler's local g (GrantResult)
    keyDefId,       \* per request: the handler's local keyDefId
    calls,          \* per request: the outbound calls it has issued, in order
    resp,           \* per request: the responses written to res, in order
    replies,        \* per request: the upstream replies its awaits got, in order
    caught,         \* per request: the e of the handler's catch block
    unhandled,      \* per request: an exception left the handler
    health          \* the last /health response

config == <<APPID, PUBLISHER_KEY, DROP_KEYS, ENABLE_LIMITER>>
startup == <<envDropKeys, booted>>
vars == <<APPID, PUBLISHER_KEY, DROP_KEYS, ENABLE_LIMITER, envDropKeys, booted,
          pc, op, body, v, g, keyDefId, calls, resp, replies, caught, unhandled,
          health>>

-----------------------------------------------------------------------------
(* Bounds *)

\* the number of requests of a run of the concurrent specification, whose
\* handlers may all be in flight together
MaxReqs == 2

\* the length of the longest text of DROP_KEYS that the parser is run on,
\* all texts over DropKeysAlphabet taken
MaxTextLen == 4

Requests == 1..MaxReqs

-----------------------------------------------------------------------------
(* JavaScript values *)

Undef == [t |-> "undefined"]
Null == [t |-> "null"]
NaN == [t |-> "NaN"]
Str(s) == [t |-> "string", s |-> s]
Num(n) == [t |-> "number", n |-> n]
Bool(b) == [t |-> "boolean", b |-> b]
\* an array of len opaque item records
List(len) == [t |-> "array", len |-> len]
\* an object; length is the value of its "length" property (Undef if none)
Obj(length) == [t |-> "object", length |-> length]

\* ToBoolean: what !x and x ? a : b and x || y test
Truthy(x) ==
    CASE x.t = "undefined" -> FALSE
      [] x.t = "null" -> FALSE
      [] x.t = "NaN" -> FALSE
      [] x.t = "string" -> x.s # ""
      [] x.t = "number" -> x.n # 0
      [] x.t = "boolean" -> x.b
      [] OTHER -> TRUE

\* a || b
Or(a, b) == IF Truthy(a) THEN a ELSE b

\* a === b
StrictEq(a, b) ==
    /\ a.t = b.t
    /\ a.t # "NaN"
    /\ a = b

Digit == <<"0", "1", "2", "3", "4", "5", "6", "7", "8", "9">>

RECURSIVE NumToString(_)
NumToString(n) ==
    IF n < 10 THEN Digit[n + 1]
    ELSE NumToString(n \div 10) \o Digit[(n % 10) + 1]

\* String(x) for the values the handlers convert
String(x) ==
    CASE x.t = "string" -> x
      [] x.t = "number" -> Str(NumToString(x.n))
      [] x.t = "NaN" -> Str("NaN")
      [] x.t = "undefined" -> Str("undefined")
      [] x.t = "null" -> Str("null")
      [] x.t = "boolean" -> Str(IF x.b THEN "true" ELSE "false")
      [] OTHER -> Str("[object Object]")

\* the numerals that occur in request bodies and in the environment
Numerals == {0, 480, 730, 10001, 10002}

\* Number(x): a number is itself, a numeral string its value, "" is 0,
\* any other string and undefined are NaN
Number(x) ==
    CASE x.t = "number" -> x
      [] x.t = "string" ->
            IF x.s = "" THEN Num(0)
            ELSE IF \E n \in Numerals : NumToString(n) = x.s
                 THEN Num(CHOOSE n \in Numerals : NumToString(n) = x.s)
                 ELSE NaN
      [] x.t = "null" -> Num(0)
      [] x.t = "boolean" -> Num(IF x.b THEN 1 ELSE 0)
      [] OTHER -> NaN

-----------------------------------------------------------------------------
(* parseDropKeys *)

\* a number with d decimals: m / 10^d, d >= 1 and m not a multiple of 10
Frac(m, d) == [t |-> "number", m |-> m, d |-> d]

\* the numerator and the number of decimals of a number
Mantissa(x) == IF "n" \in DOMAIN x THEN x.n ELSE x.m
Decimals(x) == IF "n" \in DOMAIN x THEN 0 ELSE x.d

RECURSIVE Pow10(_)
Pow10(k) == IF k = 0 THEN 1 ELSE 10 * Pow10(k - 1)

\* x - y < 0, the order of the comparator (x, y) => x - y
LessThan(x, y) ==
    Mantissa(x) * Pow10(Decimals(y)) < Mantissa(y) * Pow10(Decimals(x))

\* the number m / 10^d; -0 is 0, as in the keys of a Set
RECURSIVE Decimal(_, _)
Decimal(m, d) ==
    IF d = 0 THEN Num(m)
    ELSE IF m % 10 = 0 THEN Decimal(m \div 10, d - 1)
    ELSE Frac(m, d)

\* s[i - 1], the i-th character of s
Char(s, i) == SubSeq(s, i, i)

IsDigit(c) == c \in {"0", "1", "2", "3", "4", "5", "6", "7", "8", "9"}
DigitValue(c) == CHOOSE k \in 0..9 : Digit[k + 1] = c

\* \s, of which the model's texts hold the space only
IsSpace(c) == c = " "

\* the length of the longest run of digits (of spaces) of t that starts at i
RECURSIVE DigitRun(_, _)
DigitRun(t, i) ==
    IF i <= Len(t) /\ IsDigit(Char(t, i)) THEN 1 + DigitRun(t, i + 1) ELSE 0

RECURSIVE SpaceRun(_, _)
SpaceRun(t, i) ==
    IF i <= Len(t) /\ IsSpace(Char(t, i)) THEN 1 + SpaceRun(t, i + 1) ELSE 0

\* the value of a string of digits
RECURSIVE DigitsValue(_)
DigitsValue(t) ==
    IF Len(t) = 0 THEN 0
    ELSE 10 * DigitsValue(SubSeq(t, 1, Len(t) - 1)) + DigitValue(Char(t, Len(t)))

\* s.split(/[;,]/) from position i on, the current chunk starting at start
RECURSIVE SplitFrom(_, _, _)
SplitFrom(s, start, i) ==
    IF i > Len(s) THEN <<SubSeq(s, start, Len(s))>>
    ELSE IF Char(s, i) \in {",", ";"}
         THEN <<SubSeq(s, start, i - 1)>> \o SplitFrom(s, i + 1, i + 1)
         ELSE SplitFrom(s, start, i + 1)

Split(s) == SplitFrom(s, 1, 1)

\* chunk.trim()
Trim(chunk) ==
    LET lead == SpaceRun(chunk, 1)
        rest == SubSeq(chunk, lead + 1, Len(chunk))
        RECURSIVE TrailingSpaces(_)
        TrailingSpaces(n) ==
            IF n >= 1 /\ IsSpace(Char(rest, n)) THEN 1 + TrailingSpaces(n - 1) ELSE 0
    IN  SubSeq(rest, 1, Len(rest) - TrailingSpaces(Len(rest)))

\* t.match(/^(\d+)\s*-\s*(\d+)$/): the two groups, or <<>> (null)
RangeMatch(t) ==
    LET n1 == DigitRun(t, 1)
        dash == 1 + n1 + SpaceRun(t, 1 + n1)
        p2 == dash + 1 + SpaceRun(t, dash + 1)
        n2 == DigitRun(t, p2)
    IN  IF /\ n1 >= 1
           /\ dash <= Len(t)
           /\ Char(t, dash) = "-"
           /\ n2 >= 1
           /\ p2 + n2 - 1 = Len(t)
        THEN <<SubSeq(t, 1, n1), SubSeq(t, p2, Len(t))>>
        ELSE <<>>

\* Number(t) of a trimmed, non-empty token made of digits, signs, points
\* and other characters: [+-]? (digits [. digits?]? | . digits), NaN otherwise
NumberOfText(t) ==
    LET signed == Char(t, 1) \in {"-", "+"}
        u == IF signed THEN SubSeq(t, 2, Len(t)) ELSE t
        ni == DigitRun(u, 1)
        hasPoint == ni < Len(u) /\ Char(u, ni + 1) = "."
        nf == IF hasPoint THEN DigitRun(u, ni + 2) ELSE 0
        used == ni + (IF hasPoint THEN 1 + nf ELSE 0)
        digits == SubSeq(u, 1, ni) \o SubSeq(u, ni + 2, ni + 1 + nf)
        magnitude == DigitsValue(digits)
    IN  IF used = Len(u) /\ ni + nf >= 1
        THEN Decimal(IF Char(t, 1) = "-" THEN 0 - magnitude ELSE magnitude, nf)
        ELSE NaN

\* Number.isFinite(n)
IsFinite(n) == n.t = "number"

\* the body of the loop with the bare number raised by one
ChunkNumbers_OffByOne(chunk) ==
    LET t == Trim(chunk)
        m == RangeMatch(t)
        n == NumberOfText(t)
    IN  IF t = "" THEN {}
        ELSE IF m # <<>>
        THEN IF DigitsValue(m[1]) <= DigitsValue(m[2])
             THEN {Num(x) : x \in DigitsValue(m[1])..DigitsValue(m[2])}
             ELSE {}
        ELSE IF IsFinite(n) THEN {Decimal(Mantissa(n) + Pow10(Decimals(n)), Decimals(n))}
        ELSE {}

\* the body of the loop with the range test a < b
ChunkNumbers_StrictRange(chunk) ==
    LET t == Trim(chunk)
        m == RangeMatch(t)
        n == NumberOfText(t)
    IN  IF t = "" THEN {}
        ELSE IF m # <<>>
        THEN IF DigitsValue(m[1]) < DigitsValue(m[2])
             THEN {Num(x) : x \in DigitsValue(m[1])..DigitsValue(m[2])}
             ELSE {}
        ELSE IF IsFinite(n) THEN {n}
        ELSE {}

\* the body of the loop of parseDropKeys: the numbers that one chunk adds
\* to out
ChunkNumbers(chunk) ==
    LET t == Trim(chunk)
        m == RangeMatch(t)
        n == NumberOfText(t)
    IN  IF t = "" THEN {}
        ELSE IF m # <<>>
        THEN IF DigitsValue(m[1]) <= DigitsValue(m[2])
             THEN {Num(x) : x \in DigitsValue(m[1])..DigitsValue(m[2])}
             ELSE {}
        ELSE IF IsFinite(n) THEN {n}
        ELSE {}

\* Array.from(out).sort((x, y) => x - y)
RECURSIVE SortAscending(_)
SortAscending(out) ==
    IF out = {} THEN <<>>
    ELSE LET least == CHOOSE x \in out : \A y \in out \ {x} : LessThan(x, y)
         IN  <<least>> \o SortAscending(out \ {least})

\* parseDropKeys(s), s being process.env.DROP_KEYS (undefined when unset)
parseDropKeys(s) ==
    LET text == IF Truthy(s) THEN String(s).s ELSE ""
        chunks == Split(text)
    IN  SortAscending(UNION {ChunkNumbers(chunks[i]) : i \in 1..Len(chunks)})

-----------------------------------------------------------------------------
(* Inputs: the environment, request bodies, upstream replies *)

\* process.env.APPID: unset (Number(undefined) is NaN) or a numeral
AppIdValues == {NaN, Num(480)}

\* process.env.PUBLISHER_KEY: unset, empty, or a key of 3, 6 or 8 characters
PublisherKeyValues ==
    {Undef, Str(""), Str("abc"), Str("abcdef"), Str("abcdefgh")}

\* process.env.DROP_KEYS of the servers that take requests
DropKeysEnvValues == {Undef, Str("10001"), Str("10001, 10002")}

\* parseDropKeys(process.env.DROP_KEYS): ascending and duplicate-free
DropKeysValues == {parseDropKeys(e) : e \in DropKeysEnvValues}

\* the characters of the texts the parser is run on
DropKeysAlphabet == {"0", "1", ",", ";", "-", " ", ".", "a"}

\* the texts over DropKeysAlphabet of at most n characters
RECURSIVE TextsUpTo(_)
TextsUpTo(n) ==
    IF n = 0 THEN {""}
    ELSE LET shorter == TextsUpTo(n - 1)
         IN  shorter \cup {t \o c : t \in {x \in shorter : Len(x) = n - 1},
                                     c \in DropKeysAlphabet}

\* process.env.DROP_KEYS of the servers that only start: unset, every short
\* text, and the texts of the documentation
DropKeysEnvTexts ==
    {Undef} \cup {Str(t) : t \in TextsUpTo(MaxTextLen)}
        \cup {Str("10001,10002;10003-10010,10050"), Str("50-10"), Str("abc"),
              Str("7, 3 - 5;5;12-9")}

Routes == {"verify-only", "grant-only", "open-chest"}

ReqAppids == {Undef, Num(0), Str(""), Num(480), Str("730")}
ReqSteamids == {Undef, Str(""), Str("s1"), Str("s2")}
ReqTickets == {Undef, Str(""), Str("t1")}
ReqItemdefids == {Undef, Num(0), Num(10001), Str("10002")}

\* req.body of a request to route: the fields the route reads take every
\* value, the fields it never reads are absent
Bodies(route) ==
    [appid : IF route = "grant-only" THEN {Undef} ELSE ReqAppids,
     steamid : ReqSteamids,
     ticket : IF route = "grant-only" THEN {Undef} ELSE ReqTickets,
     itemdefid : IF route = "grant-only" THEN ReqItemdefids ELSE {Undef}]

\* the bodies of the concurrent specification: one user, every field valid,
\* or the ticket missing
BodiesConc(route) ==
    [appid : IF route = "grant-only" THEN {Undef} ELSE {Num(480)},
     steamid : {Str("s1")},
     ticket : IF route = "grant-only" THEN {Undef} ELSE {Undef, Str("t1")},
     itemdefid : IF route = "grant-only" THEN {Num(10001)} ELSE {Undef}]

\* what axios throws: a non-2xx reply (e.response.status is set) or a
\* timeout (no e.response)
UpstreamErrors ==
    {[status |-> Num(403), message |-> Str("Request failed with status code 403")],
     [status |-> Undef, message |-> Str("timeout of 15000ms exceeded")]}

Returned(data) == [kind |-> "data", data |-> data]
Thrown(e) == [kind |-> "error", e |-> e]

\* the body of the identity service's reply, as the two paths verifyTicket
\* reads of it: data?.response?.params?.result and ...?.steamid
IdentityData ==
    [result : {Str("OK"), Str("Invalid ticket"), Undef},
     steamid : {Str("s1"), Str("s2"), Undef}]

IdentityReplies ==
    {Returned(d) : d \in IdentityData} \cup {Thrown(e) : e \in UpstreamErrors}

IdentityRepliesConc ==
    {Returned([result |-> Str("OK"), steamid |-> Str("s1")]),
     Returned([result |-> Str("OK"), steamid |-> Str("s2")]),
     Returned([result |-> Str("Invalid ticket"), steamid |-> Undef])}
        \cup {Thrown(e) : e \in UpstreamErrors}

\* the texts the inventory service puts in item_json
ItemJsonTexts ==
    {"[]", "[{}]", "[{},{}]", "not json", "null", "5", "true", "\"\"",
     "\"x\"", "{}", "{\"length\":2}"}

\* the body of the inventory service's reply, as the fields grantItem reads
\* of data?.response
InventoryData ==
    [result : {Num(1), Num(2), Undef},
     success : {Bool(TRUE), Bool(FALSE), Undef},
     item_json : {Undef, Null} \cup {Str(s) : s \in ItemJsonTexts}]

InventoryReplies ==
    {Returned(d) : d \in InventoryData} \cup {Thrown(e) : e \in UpstreamErrors}

InventoryRepliesConc ==
    {Returned([result |-> Num(1), success |-> Bool(TRUE), item_json |-> Str("[{}]")]),
     Returned([result |-> Num(2), success |-> Bool(FALSE), item_json |-> Undef])}
        \cup {Thrown(e) : e \in UpstreamErrors}

-----------------------------------------------------------------------------
(* Pure functions of server.mjs *)

\* rec.name, undefined when the object has no such property
Field(rec, name) == IF name \in DOMAIN rec THEN rec[name] ELSE Undef

\* pickRandom with the index rounded up: arr[arr.length] is undefined
pickRandom_PastEnd(arr) ==
    {Undef} \cup {arr[i] : i \in 1..Len(arr)}

\* pickRandom(arr): the values arr[Math.floor(Math.random() * arr.length)]
\* can take, Math.random() being any number of [0, 1)
pickRandom(arr) ==
    IF Len(arr) = 0 THEN {Undef} ELSE {arr[i] : i \in 1..Len(arr)}

\* verifyTicket without the comparison of the claimed and the authenticated
\* steamid
verifyTicket_NoIdentityCheck(data, steamid) ==
    LET ok == StrictEq(data.result, Str("OK"))
        authedSteamId == data.steamid
    IN  IF ok
        THEN [ok |-> TRUE, steamid |-> authedSteamId]
        ELSE [ok |-> FALSE, reason |-> Str("auth_failed"), raw |-> data]

\* verifyTicket, from the reply's body on: the VerificationResult
verifyTicket(data, steamid) ==
    LET ok == StrictEq(data.result, Str("OK"))
        authedSteamId == data.steamid
    IN  IF ok /\ (~Truthy(steamid) \/ StrictEq(steamid, authedSteamId))
        THEN [ok |-> TRUE, steamid |-> authedSteamId]
        ELSE [ok |-> FALSE,
              reason |-> IF ok THEN Str("steamid_mismatch") ELSE Str("auth_failed"),
              raw |-> data]

\* JSON.parse(text): the value, or a SyntaxError
JSONParse(text) ==
    CASE text = "[]" -> Returned(List(0))
      [] text = "[{}]" -> Returned(List(1))
      [] text = "[{},{}]" -> Returned(List(2))
      [] text = "null" -> Returned(Null)
      [] text = "5" -> Returned(Num(5))
      [] text = "true" -> Returned(Bool(TRUE))
      [] text = "\"\"" -> Returned(Str(""))
      [] text = "\"x\"" -> Returned(Str("x"))
      [] text = "{}" -> Returned(Obj(Undef))
      [] text = "{\"length\":2}" -> Returned(Obj(Num(2)))
      [] OTHER -> Thrown([status |-> Undef,
                          message |-> Str("Unexpected token in JSON")])

\* x.length: a TypeError on null and undefined
Length(x) ==
    CASE x.t = "array" -> Returned(Num(x.len))
      [] x.t = "string" -> Returned(Num(Len(x.s)))
      [] x.t = "object" -> Returned(x.length)
      [] x.t \in {"null", "undefined"} ->
            Thrown([status |-> Undef,
                    message |-> Str("Cannot read properties of null (reading 'length')")])
      [] OTHER -> Returned(Undef)

\* x > 0
GreaterThanZero(x) == x.t = "number" /\ x.n > 0

\* grantItem, from the reply's body on: the GrantResult, or what it throws
grantItem(data) ==
    LET ok == StrictEq(data.result, Num(1)) \/ StrictEq(data.success, Bool(TRUE))
        parsed == JSONParse(data.item_json.s)
        items == IF parsed.kind = "data" THEN parsed.data ELSE List(0)
    IN  IF data.item_json.t = "string"
        THEN IF Length(items).kind = "error"
             THEN Length(items)
             ELSE Returned([ok |-> ok \/ GreaterThanZero(Length(items).data),
                            items |-> items, raw |-> data])
        ELSE Returned([ok |-> ok, items |-> List(0), raw |-> data])

\* the character U+2026 that /health appends to the key's prefix
Ellipsis == "..."

\* the number of characters of the key that /health echoes
KeyPrefixLen == 6

\* s.slice(0, n)
Slice(s, n) == SubSeq(s, 1, IF Len(s) < n THEN Len(s) ELSE n)

\* the body of the /health response
healthBody ==
    [ok |-> Bool(TRUE),
     appid |-> APPID,
     drop_keys |-> DROP_KEYS,
     has_key |-> Bool(Truthy(PUBLISHER_KEY)),
     key_prefix |-> IF Truthy(PUBLISHER_KEY)
                    THEN Str(Slice(PUBLISHER_KEY.s, KeyPrefixLen) \o Ellipsis)
                    ELSE Null,
     limiter_enabled |-> Bool(ENABLE_LIMITER)]

\* the details of a 500 server_error: e?.response?.status || e?.message,
\* and in open-chest || String(e)
errorDetails(route, e) ==
    IF route = "open-chest"
    THEN Or(Or(e.status, e.message), Str("Error: " \o e.message.s))
    ELSE Or(e.status, e.message)

-----------------------------------------------------------------------------
(* Initial state: the module has been loaded, no request has arrived *)

Init ==
    /\ APPID \in AppIdValues
    /\ PUBLISHER_KEY \in PublisherKeyValues
    /\ envDropKeys \in DropKeysEnvValues
    /\ DROP_KEYS = parseDropKeys(envDropKeys)
    /\ booted = TRUE
    /\ ENABLE_LIMITER \in BOOLEAN
    /\ pc = [r \in Requests |-> "idle"]
    /\ op = [r \in Requests |-> "none"]
    /\ body = [r \in Requests |-> Undef]
    /\ v = [r \in Requests |-> Undef]
    /\ g = [r \in Requests |-> Undef]
    /\ keyDefId = [r \in Requests |-> Undef]
    /\ calls = [r \in Requests |-> <<>>]
    /\ resp = [r \in Requests |-> <<>>]
    /\ replies = [r \in Requests |-> <<>>]
    /\ caught = [r \in Requests |-> Undef]
    /\ unhandled = [r \in Requests |-> FALSE]
    /\ health = Undef

-----------------------------------------------------------------------------
(* Steps shared by the handlers *)

\* return res.status(status).json(b): the handler is over
Respond(r, status, b) ==
    /\ resp' = [resp EXCEPT ![r] = Append(@, [status |-> status, body |-> b])]
    /\ pc' = [pc EXCEPT ![r] = "done"]
    /\ UNCHANGED unhandled

\* a return res.status(status).json(b) of the try block
Send(r, status, b) == Respond(r, status, b) /\ UNCHANGED caught

\* axios.get(url, {params}) / axios.post(url, form) / limiter.consume(steamid)
\* is called and the handler awaits it at label
CallAndAwait(r, call, label) ==
    /\ calls' = [calls EXCEPT ![r] = Append(@, call)]
    /\ pc' = [pc EXCEPT ![r] = label]
    /\ UNCHANGED <<resp, caught, unhandled>>

\* a handler without its try/catch: the exception leaves the handler and
\* nothing is written to res
Catch_Rethrow(r, e) ==
    /\ unhandled' = [unhandled EXCEPT ![r] = TRUE]
    /\ pc' = [pc EXCEPT ![r] = "done"]
    /\ UNCHANGED <<resp, caught>>

\* the catch (e) block of the three handlers
Catch(r, e) ==
    /\ caught' = [caught EXCEPT ![r] = e]
    /\ Respond(r, 500, [error |-> Str("server_error"),
                        details |-> errorDetails(op[r], e)])

\* an await of the handler gets the upstream reply
Resume(r, reply) == replies' = [replies EXCEPT ![r] = Append(@, reply)]

identityCall(appid, ticket) ==
    [svc |-> "identity", key |-> PUBLISHER_KEY, appid |-> appid, ticket |-> ticket]

inventoryCall(appid, steamid, itemdefid, quantity) ==
    [svc |-> "inventory", key |-> PUBLISHER_KEY, appid |-> String(appid),
     steamid |-> String(steamid), itemdefid |-> String(itemdefid),
     quantity |-> String(quantity)]

limiterCall(steamid) == [svc |-> "limiter", subject |-> steamid]

\* express parses a POST to route and invokes its handler with req.body = b;
\* every request has its own slot r, so the handler's locals are fresh
Arrive(r, route, b) ==
    /\ pc[r] = "idle"
    /\ pc' = [pc EXCEPT ![r] = "received"]
    /\ op' = [op EXCEPT ![r] = route]
    /\ body' = [body EXCEPT ![r] = b]
    /\ UNCHANGED <<config, startup, v, g, keyDefId, calls, resp, replies, caught,
                   unhandled, health>>

-----------------------------------------------------------------------------
(* GET /health *)

Health ==
    /\ health' = [status |-> 200, body |-> healthBody]
    /\ UNCHANGED <<config, startup, pc, op, body, v, g, keyDefId, calls, resp, replies,
                   caught, unhandled>>

-----------------------------------------------------------------------------
(* POST /verify-only *)

\* const { appid = APPID, ... } = req.body: the default replaces undefined only
verifyOnlyAppid(b) == IF b.appid.t = "undefined" THEN APPID ELSE b.appid

\* the handler up to its await of verifyTicket
VerifyOnlyStart(r) ==
    /\ pc[r] = "received" /\ op[r] = "verify-only"
    /\ LET appid == verifyOnlyAppid(body[r])
       IN  IF ~Truthy(appid) \/ ~Truthy(body[r].steamid) \/ ~Truthy(body[r].ticket)
           THEN /\ Send(r, 400, [error |-> Str("missing_fields")])
                /\ UNCHANGED calls
           ELSE CallAndAwait(r, identityCall(Number(appid), body[r].ticket), "verify")
    /\ UNCHANGED <<config, startup, op, body, v, g, keyDefId, replies, health>>

\* the identity service has replied (or axios has thrown)
VerifyOnlyAfterVerify(r, reply) ==
    /\ pc[r] = "verify" /\ op[r] = "verify-only"
    /\ Resume(r, reply)
    /\ UNCHANGED <<config, startup, op, body, g, keyDefId, calls, health>>
    /\ IF reply.kind = "error"
       THEN Catch(r, reply.e) /\ UNCHANGED v
       ELSE LET vr == verifyTicket(reply.data, body[r].steamid)
            IN  /\ v' = [v EXCEPT ![r] = vr]
                /\ IF ~vr.ok
                   THEN Send(r, 401, [ok |-> Bool(FALSE), reason |-> vr.reason,
                                      raw |-> Field(vr, "raw")])
                   ELSE Send(r, 200, [ok |-> Bool(TRUE), steamid |-> vr.steamid])

-----------------------------------------------------------------------------
(* POST /grant-only *)

\* grant-only without the check of the publisher key
GrantOnlyStart_NoKeyCheck(r) ==
    /\ pc[r] = "received" /\ op[r] = "grant-only"
    /\ UNCHANGED <<config, startup, op, body, v, g, keyDefId, replies, health>>
    /\ IF ~Truthy(body[r].steamid) \/ ~Truthy(body[r].itemdefid)
       THEN Send(r, 400, [error |-> Str("missing_fields")]) /\ UNCHANGED calls
       ELSE CallAndAwait(r, inventoryCall(APPID, body[r].steamid,
                                          Number(body[r].itemdefid), Num(1)),
                         "grant")

\* the handler up to its await of grantItem
GrantOnlyStart(r) ==
    /\ pc[r] = "received" /\ op[r] = "grant-only"
    /\ UNCHANGED <<config, startup, op, body, v, g, keyDefId, replies, health>>
    /\ IF ~Truthy(body[r].steamid) \/ ~Truthy(body[r].itemdefid)
       THEN Send(r, 400, [error |-> Str("missing_fields")]) /\ UNCHANGED calls
       ELSE IF ~Truthy(PUBLISHER_KEY)
       THEN Send(r, 500, [error |-> Str("missing_publisher_key")]) /\ UNCHANGED calls
       ELSE CallAndAwait(r, inventoryCall(APPID, body[r].steamid,
                                          Number(body[r].itemdefid), Num(1)),
                         "grant")

\* the inventory service has replied (or axios has thrown)
GrantOnlyAfterGrant(r, reply) ==
    /\ pc[r] = "grant" /\ op[r] = "grant-only"
    /\ Resume(r, reply)
    /\ UNCHANGED <<config, startup, op, body, v, keyDefId, calls, health>>
    /\ IF reply.kind = "error"
       THEN Catch(r, reply.e) /\ UNCHANGED g
       ELSE LET gr == grantItem(reply.data)
            IN  IF gr.kind = "error"
                THEN Catch(r, gr.e) /\ UNCHANGED g
                ELSE /\ g' = [g EXCEPT ![r] = gr.data]
                     /\ IF ~gr.data.ok
                        THEN Send(r, 502, [ok |-> Bool(FALSE),
                                           reason |-> Str("grant_failed"),
                                           raw |-> gr.data.raw])
                        ELSE Send(r, 200, [ok |-> Bool(TRUE),
                                           granted |-> gr.data.items,
                                           raw |-> gr.data.raw])

-----------------------------------------------------------------------------
(* POST /open-chest *)

\* open-chest refusing a request while another request of the same steamid
\* is in flight (a deduplicating handler)
OpenChestStart_Dedup(r) ==
    /\ pc[r] = "received" /\ op[r] = "open-chest"
    /\ UNCHANGED <<config, startup, op, body, v, g, keyDefId, replies, health>>
    /\ IF ~Truthy(body[r].appid) \/ ~Truthy(body[r].steamid) \/ ~Truthy(body[r].ticket)
       THEN Send(r, 400, [error |-> Str("missing_fields")]) /\ UNCHANGED calls
       ELSE IF ~Truthy(PUBLISHER_KEY)
       THEN Send(r, 500, [error |-> Str("missing_publisher_key")]) /\ UNCHANGED calls
       ELSE IF Len(DROP_KEYS) = 0
       THEN Send(r, 500, [error |-> Str("server_not_configured")]) /\ UNCHANGED calls
       ELSE IF \E q \in DOMAIN pc :
                   /\ q # r /\ op[q] = "open-chest"
                   /\ pc[q] \in {"limiter", "verify", "grant"}
                   /\ body[q].steamid = body[r].steamid
       THEN Send(r, 429, [error |-> Str("rate_limited")]) /\ UNCHANGED calls
       ELSE CallAndAwait(r, limiterCall(body[r].steamid), "limiter")

\* open-chest with the configuration checked before the request's fields
OpenChestStart_ConfigFirst(r) ==
    /\ pc[r] = "received" /\ op[r] = "open-chest"
    /\ UNCHANGED <<config, startup, op, body, v, g, keyDefId, replies, health>>
    /\ IF ~Truthy(PUBLISHER_KEY)
       THEN Send(r, 500, [error |-> Str("missing_publisher_key")]) /\ UNCHANGED calls
       ELSE IF Len(DROP_KEYS) = 0
       THEN Send(r, 500, [error |-> Str("server_not_configured")]) /\ UNCHANGED calls
       ELSE IF ~Truthy(body[r].appid) \/ ~Truthy(body[r].steamid) \/ ~Truthy(body[r].ticket)
       THEN Send(r, 400, [error |-> Str("missing_fields")]) /\ UNCHANGED calls
       ELSE CallAndAwait(r, limiterCall(body[r].steamid), "limiter")

\* open-chest without the check of the reward pool
OpenChestStart_NoPoolCheck(r) ==
    /\ pc[r] = "received" /\ op[r] = "open-chest"
    /\ UNCHANGED <<config, startup, op, body, v, g, keyDefId, replies, health>>
    /\ IF ~Truthy(body[r].appid) \/ ~Truthy(body[r].steamid) \/ ~Truthy(body[r].ticket)
       THEN Send(r, 400, [error |-> Str("missing_fields")]) /\ UNCHANGED calls
       ELSE IF ~Truthy(PUBLISHER_KEY)
       THEN Send(r, 500, [error |-> Str("missing_publisher_key")]) /\ UNCHANGED calls
       ELSE CallAndAwait(r, limiterCall(body[r].steamid), "limiter")

\* the handler up to its await of limiter.consume
OpenChestStart(r) ==
    /\ pc[r] = "received" /\ op[r] = "open-chest"
    /\ UNCHANGED <<config, startup, op, body, v, g, keyDefId, replies, health>>
    /\ IF ~Truthy(body[r].appid) \/ ~Truthy(body[r].steamid) \/ ~Truthy(body[r].ticket)
       THEN Send(r, 400, [error |-> Str("missing_fields")]) /\ UNCHANGED calls
       ELSE IF ~Truthy(PUBLISHER_KEY)
       THEN Send(r, 500, [error |-> Str("missing_publisher_key")]) /\ UNCHANGED calls
       ELSE IF Len(DROP_KEYS) = 0
       THEN Send(r, 500, [error |-> Str("server_not_configured")]) /\ UNCHANGED calls
       ELSE CallAndAwait(r, limiterCall(body[r].steamid), "limiter")

\* limiter.consume has resolved (the no-op limiter never rejects): the
\* handler goes on to its await of verifyTicket
OpenChestAfterLimiter(r) ==
    /\ pc[r] = "limiter" /\ op[r] = "open-chest"
    /\ UNCHANGED <<config, startup, op, body, v, g, keyDefId, replies, health>>
    /\ CallAndAwait(r, identityCall(Number(body[r].appid), body[r].ticket), "verify")

\* open-chest going on to the grant whatever verifyTicket returned
OpenChestAfterVerify_NoOkCheck(r, reply) ==
    /\ pc[r] = "verify" /\ op[r] = "open-chest"
    /\ Resume(r, reply)
    /\ UNCHANGED <<config, startup, op, body, g, health>>
    /\ IF reply.kind = "error"
       THEN Catch(r, reply.e) /\ UNCHANGED <<v, keyDefId, calls>>
       ELSE LET vr == verifyTicket(reply.data, body[r].steamid)
            IN  /\ v' = [v EXCEPT ![r] = vr]
                /\ \E k \in pickRandom(DROP_KEYS) :
                        /\ keyDefId' = [keyDefId EXCEPT ![r] = k]
                        /\ CallAndAwait(r, inventoryCall(APPID, body[r].steamid,
                                                         k, Num(1)),
                                        "grant")

\* open-chest issuing the grant against the application id of the request
OpenChestAfterVerify_RequestAppid(r, reply) ==
    /\ pc[r] = "verify" /\ op[r] = "open-chest"
    /\ Resume(r, reply)
    /\ UNCHANGED <<config, startup, op, body, g, health>>
    /\ IF reply.kind = "error"
       THEN Catch(r, reply.e) /\ UNCHANGED <<v, keyDefId, calls>>
       ELSE LET vr == verifyTicket(reply.data, body[r].steamid)
            IN  /\ v' = [v EXCEPT ![r] = vr]
                /\ IF ~vr.ok
                   THEN /\ Send(r, 401, [error |-> Or(Field(vr, "reason"),
                                                      Str("auth_failed")),
                                         raw |-> Field(vr, "raw")])
                        /\ UNCHANGED <<keyDefId, calls>>
                   ELSE \E k \in pickRandom(DROP_KEYS) :
                            /\ keyDefId' = [keyDefId EXCEPT ![r] = k]
                            /\ CallAndAwait(r, inventoryCall(Number(body[r].appid),
                                                             body[r].steamid,
                                                             k, Num(1)),
                                            "grant")

\* the identity service has replied (or axios has thrown): on success the
\* handler draws the reward and goes on to its await of grantItem
OpenChestAfterVerify(r, reply) ==
    /\ pc[r] = "verify" /\ op[r] = "open-chest"
    /\ Resume(r, reply)
    /\ UNCHANGED <<config, startup, op, body, g, health>>
    /\ IF reply.kind = "error"
       THEN Catch(r, reply.e) /\ UNCHANGED <<v, keyDefId, calls>>
       ELSE LET vr == verifyTicket(reply.data, body[r].steamid)
            IN  /\ v' = [v EXCEPT ![r] = vr]
                /\ IF ~vr.ok
                   THEN /\ Send(r, 401, [error |-> Or(Field(vr, "reason"),
                                                      Str("auth_failed")),
                                         raw |-> Field(vr, "raw")])
                        /\ UNCHANGED <<keyDefId, calls>>
                   ELSE \E k \in pickRandom(DROP_KEYS) :
                            /\ keyDefId' = [keyDefId EXCEPT ![r] = k]
                            /\ CallAndAwait(r, inventoryCall(APPID, body[r].steamid,
                                                             k, Num(1)),
                                            "grant")

\* open-chest repeating a grant call that was not ok, once
OpenChestAfterGrant_Retry(r, reply) ==
    /\ pc[r] = "grant" /\ op[r] = "open-chest"
    /\ Resume(r, reply)
    /\ UNCHANGED <<config, startup, op, body, v, keyDefId, health>>
    /\ IF reply.kind = "error"
       THEN Catch(r, reply.e) /\ UNCHANGED <<g, calls>>
       ELSE LET gr == grantItem(reply.data)
            IN  IF gr.kind = "error"
                THEN Catch(r, gr.e) /\ UNCHANGED <<g, calls>>
                ELSE /\ g' = [g EXCEPT ![r] = gr.data]
                     /\ IF ~gr.data.ok /\ Len(calls[r]) < 4
                        THEN CallAndAwait(r, calls[r][Len(calls[r])], "grant")
                        ELSE IF ~gr.data.ok
                        THEN /\ Send(r, 502, [error |-> Str("grant_failed"),
                                              raw |-> gr.data.raw])
                             /\ UNCHANGED calls
                        ELSE /\ Send(r, 200, [ok |-> Bool(TRUE),
                                              itemdefid |-> keyDefId[r],
                                              grant |-> gr.data.raw])
                             /\ UNCHANGED calls

\* the inventory service has replied (or axios has thrown)
OpenChestAfterGrant(r, reply) ==
    /\ pc[r] = "grant" /\ op[r] = "open-chest"
    /\ Resume(r, reply)
    /\ UNCHANGED <<config, startup, op, body, v, keyDefId, calls, health>>
    /\ IF reply.kind = "error"
       THEN Catch(r, reply.e) /\ UNCHANGED g
       ELSE LET gr == grantItem(reply.data)
            IN  IF gr.kind = "error"
                THEN Catch(r, gr.e) /\ UNCHANGED g
                ELSE /\ g' = [g EXCEPT ![r] = gr.data]
                     /\ IF ~gr.data.ok
                        THEN Send(r, 502, [error |-> Str("grant_failed"),
                                           raw |-> gr.data.raw])
                        ELSE Send(r, 200, [ok |-> Bool(TRUE),
                                           itemdefid |-> keyDefId[r],
                                           grant |-> gr.data.raw])

-----------------------------------------------------------------------------
(* Specifications *)

\* one request at a time, over the whole input space
Next ==
    \/ Health
    \/ \E route \in Routes : \E b \in Bodies(route) : Arrive(1, route, b)
    \/ VerifyOnlyStart(1)
    \/ \E reply \in IdentityReplies : VerifyOnlyAfterVerify(1, reply)
    \/ GrantOnlyStart(1)
    \/ \E reply \in InventoryReplies : GrantOnlyAfterGrant(1, reply)
    \/ OpenChestStart(1)
    \/ OpenChestAfterLimiter(1)
    \/ \E reply \in IdentityReplies : OpenChestAfterVerify(1, reply)
    \/ \E reply \in InventoryReplies : OpenChestAfterGrant(1, reply)

Spec == Init /\ [][Next]_vars

\* the concurrent specification starts from a complete configuration or
\* from one with an empty reward pool
InitConc ==
    /\ Init
    /\ APPID = Num(480)
    /\ PUBLISHER_KEY = Str("abcdefgh")
    /\ envDropKeys \in {Undef, Str("10001, 10002")}
    /\ ENABLE_LIMITER = FALSE

\* MaxReqs requests in flight together, their handlers interleaved at the
\* awaits, over the smaller input space
NextConc ==
    \E r \in Requests :
        \/ \E route \in Routes : \E b \in BodiesConc(route) : Arrive(r, route, b)
        \/ VerifyOnlyStart(r)
        \/ \E reply \in IdentityRepliesConc : VerifyOnlyAfterVerify(r, reply)
        \/ GrantOnlyStart(r)
        \/ \E reply \in InventoryRepliesConc : GrantOnlyAfterGrant(r, reply)
        \/ OpenChestStart(r)
        \/ OpenChestAfterLimiter(r)
        \/ \E reply \in IdentityRepliesConc : OpenChestAfterVerify(r, reply)
        \/ \E reply \in InventoryRepliesConc : OpenChestAfterGrant(r, reply)

SpecConc == InitConc /\ [][NextConc]_vars

\* the start of the process: the environment is set and the module's
\* top-level code has not run yet
InitParse ==
    /\ envDropKeys \in DropKeysEnvTexts
    /\ booted = FALSE
    /\ APPID = Num(480)
    /\ PUBLISHER_KEY = Str("abcdefgh")
    /\ DROP_KEYS = <<>>
    /\ ENABLE_LIMITER = FALSE
    /\ pc = [r \in Requests |-> "idle"]
    /\ op = [r \in Requests |-> "none"]
    /\ body = [r \in Requests |-> Undef]
    /\ v = [r \in Requests |-> Undef]
    /\ g = [r \in Requests |-> Undef]
    /\ keyDefId = [r \in Requests |-> Undef]
    /\ calls = [r \in Requests |-> <<>>]
    /\ resp = [r \in Requests |-> <<>>]
    /\ replies = [r \in Requests |-> <<>>]
    /\ caught = [r \in Requests |-> Undef]
    /\ unhandled = [r \in Requests |-> FALSE]
    /\ health = Undef

\* const DROP_KEYS = parseDropKeys(process.env.DROP_KEYS)
Boot ==
    /\ ~booted
    /\ booted' = TRUE
    /\ DROP_KEYS' = parseDropKeys(envDropKeys)
    /\ UNCHANGED <<APPID, PUBLISHER_KEY, ENABLE_LIMITER, envDropKeys, pc, op, body,
                   v, g, keyDefId, calls, resp, replies, caught, unhandled, health>>

NextParse == Boot

\* the parser run on every text of DropKeysEnvTexts
SpecParse == InitParse /\ [][NextParse]_vars

-----------------------------------------------------------------------------
(* Vocabulary of the properties *)

\* request r has issued a call to service svc
HasCall(r, svc) == \E i \in 1..Len(calls[r]) : calls[r][i].svc = svc

\* the services request r has called, in the order of the calls
Services(r) == [i \in 1..Len(calls[r]) |-> calls[r][i].svc]

\* the handler of request r has run its first segment
Started(r) == pc[r] \notin {"idle", "received"}

\* request r was answered once, with status and body b
Answered(r, status, b) ==
    /\ pc[r] = "done"
    /\ resp[r] = <<[status |-> status, body |-> b]>>

\* needle occurs in hay
Contains(hay, needle) ==
    \E i \in 1..(Len(hay) - Len(needle) + 1) :
        SubSeq(hay, i, i + Len(needle) - 1) = needle

-----------------------------------------------------------------------------
(* C1 *)

\* C1: in open-chest, under every interleaving of the requests, a grant call
\* is issued only after the same request's limiter gate has resolved and its
\* verification has returned ok (the calls of the request are then limiter,
\* identity, inventory, in this order); a request whose verification is not
\* ok is answered 401 with the reason and never issues a grant call.
C1_GrantOnlyAfterGateAndVerify ==
    \A r \in Requests :
        op[r] = "open-chest" =>
            /\ HasCall(r, "inventory") =>
                   /\ Services(r) = <<"limiter", "identity", "inventory">>
                   /\ replies[r] # <<>>
                   /\ replies[r][1].kind = "data"
                   /\ v[r] # Undef
                   /\ v[r].ok
            /\ HasCall(r, "identity") => pc[r] # "limiter"
            /\ (v[r] # Undef /\ ~v[r].ok) =>
                   /\ Answered(r, 401, [error |-> v[r].reason, raw |-> v[r].raw])
                   /\ ~HasCall(r, "inventory")

\* one open-chest request awaits its grant call while another one, whose
\* verification failed, has been answered 401
C1_Witness ==
    \E r, q \in Requests :
        /\ r # q
        /\ op[r] = "open-chest" /\ pc[r] = "grant" /\ HasCall(r, "inventory")
        /\ op[q] = "open-chest" /\ v[q] # Undef /\ ~v[q].ok
        /\ pc[q] = "done"

-----------------------------------------------------------------------------
(* C2 *)

\* C2: for a reward pool of size N >= 1, the itemdefid of a 200 response of
\* open-chest is a member of the pool and is the itemdefid that the
\* request's grant call carried to the inventory service.
C2_RewardFromPool ==
    \A r \in Requests :
        (op[r] = "open-chest" /\ pc[r] = "done" /\ resp[r][1].status = 200) =>
            /\ Len(DROP_KEYS) >= 1
            /\ \E i \in 1..Len(DROP_KEYS) :
                   resp[r][1].body.itemdefid = DROP_KEYS[i]
            /\ Len(calls[r]) = 3
            /\ calls[r][3].svc = "inventory"
            /\ calls[r][3].itemdefid = String(resp[r][1].body.itemdefid)

\* an open-chest request answered 200 with the second key of a pool of two
C2_Witness ==
    /\ op[1] = "open-chest" /\ pc[1] = "done"
    /\ Len(DROP_KEYS) = 2
    /\ resp[1][1].status = 200
    /\ resp[1][1].body.itemdefid = DROP_KEYS[2]

-----------------------------------------------------------------------------
(* C3 *)

\* the body of the identity service's reply to request r
IdentityReplyOf(r) == IF op[r] = "grant-only" THEN Undef ELSE replies[r][1].data

\* C3: verification succeeds exactly when the service's result is "OK" and
\* (no steamid is claimed or the claimed steamid equals the service's);
\* otherwise the reason is steamid_mismatch when the result is "OK" and
\* auth_failed in every other case; verify-only answers 200 with the
\* service's steamid on success and 401 with that reason on failure.
C3_VerifyDecision ==
    \A r \in Requests :
        v[r] # Undef =>
            LET d == IdentityReplyOf(r)
                claimed == body[r].steamid
                serviceOk == d.result = Str("OK")
                agree == claimed = Undef \/ claimed = d.steamid
                reason == IF serviceOk THEN Str("steamid_mismatch")
                          ELSE Str("auth_failed")
            IN  /\ v[r].ok <=> (serviceOk /\ agree)
                /\ ~v[r].ok => v[r].reason = reason
                /\ op[r] = "verify-only" =>
                       /\ pc[r] = "done"
                       /\ Len(resp[r]) = 1
                       /\ IF serviceOk /\ agree
                          THEN /\ resp[r][1].status = 200
                               /\ resp[r][1].body.steamid = d.steamid
                          ELSE /\ resp[r][1].status = 401
                               /\ resp[r][1].body.reason = reason

\* verify-only answered 401 steamid_mismatch: the service said "OK" for
\* another steamid than the claimed one
C3_Witness ==
    /\ op[1] = "verify-only" /\ pc[1] = "done"
    /\ replies[1] # <<>>
    /\ replies[1][1].kind = "data"
    /\ replies[1][1].data.result = Str("OK")
    /\ replies[1][1].data.steamid # body[1].steamid
    /\ resp[1][1].status = 401
    /\ resp[1][1].body.reason = Str("steamid_mismatch")

-----------------------------------------------------------------------------
(* C4 *)

\* the body of the inventory service's reply to request r
InventoryReplyOf(r) == replies[r][Len(replies[r])].data

\* C4: the grant result is ok exactly when (a) result is 1, or (b) success
\* is true, or (c) item_json is a string that parses to a list of at least
\* one item.
C4_GrantOkExactlyThreeWays ==
    \A r \in Requests :
        g[r] # Undef =>
            LET d == InventoryReplyOf(r)
                a == d.result = Num(1)
                b == d.success = Bool(TRUE)
                c == /\ d.item_json.t = "string"
                     /\ JSONParse(d.item_json.s).kind = "data"
                     /\ JSONParse(d.item_json.s).data.t = "array"
                     /\ JSONParse(d.item_json.s).data.len >= 1
            IN  g[r].ok <=> (a \/ b \/ c)

-----------------------------------------------------------------------------
(* C5 *)

\* the body of request r lacks a field its route requires
LacksRequiredField(r) ==
    CASE op[r] = "verify-only" ->
            body[r].steamid = Undef \/ body[r].ticket = Undef
      [] op[r] = "grant-only" ->
            body[r].steamid = Undef \/ body[r].itemdefid = Undef
      [] op[r] = "open-chest" ->
            body[r].appid = Undef \/ body[r].steamid = Undef \/ body[r].ticket = Undef
      [] OTHER -> FALSE

\* C5: a request that lacks a required field of its route is answered 400
\* missing_fields whatever the other fields and the configuration are, and
\* issues no call to the limiter, the identity or the inventory service.
C5_MissingFields400 ==
    \A r \in Requests :
        (Started(r) /\ LacksRequiredField(r)) =>
            /\ Answered(r, 400, [error |-> Str("missing_fields")])
            /\ calls[r] = <<>>

\* open-chest without its ticket, on a server with neither key nor pool, is
\* answered 400
C5_Witness ==
    /\ op[1] = "open-chest" /\ pc[1] = "done"
    /\ body[1].ticket = Undef /\ body[1].appid # Undef /\ body[1].steamid # Undef
    /\ ~Truthy(PUBLISHER_KEY) /\ DROP_KEYS = <<>>
    /\ resp[1][1].status = 400

-----------------------------------------------------------------------------
(* C6 *)

\* C6, as claimed: with an empty reward pool, every open-chest request whose
\* appid, steamid and ticket are all present is answered 500
\* server_not_configured, and calls neither the limiter nor the identity nor
\* the inventory service.
C6_EmptyPoolAlwaysNotConfigured ==
    \A r \in Requests :
        (/\ op[r] = "open-chest" /\ Started(r)
         /\ DROP_KEYS = <<>>
         /\ Truthy(body[r].appid) /\ Truthy(body[r].steamid)
         /\ Truthy(body[r].ticket)) =>
            /\ Answered(r, 500, [error |-> Str("server_not_configured")])
            /\ calls[r] = <<>>

\* C6, amended: with an empty reward pool, every open-chest request whose
\* appid, steamid and ticket are all present (not empty, not zero) is
\* answered 500 without any call to the limiter, the identity or the
\* inventory service: server_not_configured when a publisher key is
\* configured, missing_publisher_key when none is.
C6_EmptyPoolNotConfigured ==
    \A r \in Requests :
        (/\ op[r] = "open-chest" /\ Started(r)
         /\ DROP_KEYS = <<>>
         /\ Truthy(body[r].appid) /\ Truthy(body[r].steamid)
         /\ Truthy(body[r].ticket)) =>
            /\ Answered(r, 500,
                        [error |-> IF Truthy(PUBLISHER_KEY)
                                   THEN Str("server_not_configured")
                                   ELSE Str("missing_publisher_key")])
            /\ calls[r] = <<>>

\* a valid open-chest request on a server with a key and an empty pool is
\* answered 500 server_not_configured
C6_Witness ==
    /\ op[1] = "open-chest" /\ pc[1] = "done"
    /\ DROP_KEYS = <<>> /\ Truthy(PUBLISHER_KEY)
    /\ Truthy(body[1].appid) /\ Truthy(body[1].steamid) /\ Truthy(body[1].ticket)
    /\ resp[1][1].body.error = Str("server_not_configured")

-----------------------------------------------------------------------------
(* C7 *)

\* C7: on a server with a configured application id, a verify-only request
\* with steamid and ticket is never answered 400 missing_fields, whatever its
\* appid field is (absent, empty, zero, any value), and the identity service
\* is called.
C7_AppidOptional ==
    \A r \in Requests :
        (/\ op[r] = "verify-only" /\ Started(r)
         /\ Truthy(APPID)
         /\ Truthy(body[r].steamid) /\ Truthy(body[r].ticket)) =>
            /\ HasCall(r, "identity")
            /\ \A i \in 1..Len(resp[r]) : resp[r][i].status # 400

-----------------------------------------------------------------------------
(* C8 *)

\* C8: the verification result always carries the raw reply of the identity
\* service, on success as well as on failure.
C8_RawAlwaysAttached ==
    \A r \in Requests :
        v[r] # Undef =>
            /\ "raw" \in DOMAIN v[r]
            /\ v[r].raw = IdentityReplyOf(r)

-----------------------------------------------------------------------------
(* C9 *)

\* what the details of a server_error are to be: the upstream status code
\* if there is one, a message otherwise
ExpectedDetails(e) == IF e.status # Undef THEN e.status ELSE e.message

\* C9: when the identity call, the inventory call or a step of the handler
\* throws, the request ends with exactly one response, 500 server_error with
\* the upstream status code if available and a message otherwise; no
\* exception leaves the handler, and in open-chest a throwing identity call
\* leads to no grant call.
C9_ThrowsBecomeServerError ==
    \A r \in Requests :
        LET n == Len(replies[r])
            upstreamThrew == n > 0 /\ replies[r][n].kind = "error"
            stepThrew == /\ n > 0 /\ replies[r][n].kind = "data"
                         /\ pc[r] = "done"
                         /\ HasCall(r, "inventory")
                         /\ grantItem(replies[r][n].data).kind = "error"
        IN  /\ ~unhandled[r]
            /\ Len(resp[r]) <= 1
            /\ upstreamThrew => caught[r] = replies[r][n].e
            /\ stepThrew => caught[r] = grantItem(replies[r][n].data).e
            /\ (upstreamThrew \/ stepThrew) =>
                   Answered(r, 500, [error |-> Str("server_error"),
                                     details |-> ExpectedDetails(caught[r])])
            /\ (op[r] = "open-chest" /\ n = 1 /\ upstreamThrew) =>
                   ~HasCall(r, "inventory")

\* an open-chest request whose identity call was refused with status 403 is
\* answered 500 server_error with details 403
C9_Witness ==
    /\ op[1] = "open-chest" /\ pc[1] = "done"
    /\ Len(replies[1]) = 1
    /\ replies[1][1].kind = "error"
    /\ replies[1][1].e.status = Num(403)
    /\ resp[1][1].status = 500
    /\ resp[1][1].body.details = Num(403)

-----------------------------------------------------------------------------
(* C10 *)

\* C10: the /health response never contains the full publisher key:
\* key_prefix is null when no key is configured, and otherwise a proper
\* prefix of the key followed by the ellipsis.
C10_HealthNeverEchoesKey ==
    health # Undef =>
        IF ~Truthy(PUBLISHER_KEY)
        THEN health.body.key_prefix = Null
        ELSE /\ \E n \in 0..(Len(PUBLISHER_KEY.s) - 1) :
                    health.body.key_prefix.s = SubSeq(PUBLISHER_KEY.s, 1, n) \o Ellipsis
             /\ ~Contains(health.body.key_prefix.s, PUBLISHER_KEY.s)

-----------------------------------------------------------------------------
(* C11 *)

\* the decimal text of an itemdefid given as a number or as a numeral string
ItemdefidText(x) == IF x.t = "number" THEN NumToString(x.n) ELSE x.s

\* C11: grant-only never calls the identity service; with steamid and
\* itemdefid present and no publisher key it answers 500
\* missing_publisher_key without an inventory call; with a key it issues
\* exactly one grant call, of quantity 1 and of the requested itemdefid, and
\* answers 502 grant_failed when the grant result is not ok and 200 when it is.
C11_GrantOnlyFlow ==
    \A r \in Requests :
        (op[r] = "grant-only" /\ Started(r)) =>
            /\ ~HasCall(r, "identity") /\ ~HasCall(r, "limiter")
            /\ v[r] = Undef
            /\ (Truthy(body[r].steamid) /\ Truthy(body[r].itemdefid)) =>
                   IF ~Truthy(PUBLISHER_KEY)
                   THEN /\ Answered(r, 500, [error |-> Str("missing_publisher_key")])
                        /\ calls[r] = <<>>
                   ELSE /\ Len(calls[r]) = 1
                        /\ calls[r][1].svc = "inventory"
                        /\ calls[r][1].quantity = Str("1")
                        /\ calls[r][1].itemdefid.s = ItemdefidText(body[r].itemdefid)
                        /\ calls[r][1].steamid = body[r].steamid
                        /\ g[r] # Undef =>
                               /\ pc[r] = "done" /\ Len(resp[r]) = 1
                               /\ resp[r][1].status = IF g[r].ok THEN 200 ELSE 502
                               /\ ~g[r].ok =>
                                      resp[r][1].body.reason = Str("grant_failed")

\* a grant-only request for itemdefid "10002" whose grant was refused is
\* answered 502 after one grant call
C11_Witness ==
    /\ op[1] = "grant-only" /\ pc[1] = "done"
    /\ body[1].itemdefid = Str("10002")
    /\ Len(calls[1]) = 1
    /\ g[1] # Undef /\ ~g[1].ok
    /\ resp[1][1].status = 502

-----------------------------------------------------------------------------
(* C12 *)

\* request r is an open-chest request with every field, on a server with a
\* key and a reward pool, whose handler has started
OpenChestAdmitted(r) ==
    /\ op[r] = "open-chest" /\ Started(r)
    /\ Truthy(body[r].appid) /\ Truthy(body[r].steamid) /\ Truthy(body[r].ticket)
    /\ Truthy(PUBLISHER_KEY) /\ Len(DROP_KEYS) >= 1

\* the identity service has confirmed the steamid of request r
VerifiedUpstream(r) ==
    /\ Len(replies[r]) >= 1
    /\ replies[r][1].kind = "data"
    /\ replies[r][1].data.result = Str("OK")
    /\ replies[r][1].data.steamid = body[r].steamid

\* the inventory service has reported the grant of request r as done
GrantedUpstream(r) ==
    /\ Len(replies[r]) = 2
    /\ replies[r][2].kind = "data"
    /\ replies[r][2].data.result = Num(1)

\* how far request r has got depends on its own upstream replies only
ProceedsOnItsOwn(r) ==
    /\ Len(replies[r]) = 0 => pc[r] \in {"limiter", "verify"}
    /\ (Len(replies[r]) = 1 /\ VerifiedUpstream(r)) =>
           /\ pc[r] = "grant"
           /\ Services(r) = <<"limiter", "identity", "inventory">>
    /\ (VerifiedUpstream(r) /\ GrantedUpstream(r)) =>
           /\ pc[r] = "done" /\ Len(resp[r]) = 1
           /\ resp[r][1].status = 200
           /\ Services(r) = <<"limiter", "identity", "inventory">>

\* open-chest requests of the same steamid proceed independently
C12_SameUserIndependent ==
    \A r, q \in Requests :
        (/\ r # q
         /\ OpenChestAdmitted(r) /\ OpenChestAdmitted(q)
         /\ body[r].steamid = body[q].steamid) =>
            ProceedsOnItsOwn(r) /\ ProceedsOnItsOwn(q)

\* C12: two open-chest requests of the same steamid, interleaved in any way
\* at their awaits, proceed independently: when both verifications and both
\* grants succeed upstream both are answered 200 and each has issued its own
\* grant call (no deduplication); and no step changes the reward pool or the
\* configuration.
C12_NoDedupConfigReadOnly ==
    /\ []C12_SameUserIndependent
    /\ [][config' = config]_vars

\* two open-chest requests of one steamid, both answered 200, each after its
\* own grant call
C12_Witness ==
    \E r, q \in Requests :
        /\ r # q
        /\ OpenChestAdmitted(r) /\ OpenChestAdmitted(q)
        /\ body[r].steamid = body[q].steamid
        /\ pc[r] = "done" /\ resp[r][1].status = 200 /\ HasCall(r, "inventory")
        /\ pc[q] = "done" /\ resp[q][1].status = 200 /\ HasCall(q, "inventory")

-----------------------------------------------------------------------------
(* C13 *)

\* the number of calls request r has issued to service svc
CallCount(r, svc) ==
    Cardinality({i \in 1..Len(calls[r]) : calls[r][i].svc = svc})

\* the last upstream call of request r has failed: axios threw, the
\* verification result is not ok, or the grant result is not ok
LastCallFailed(r) ==
    LET n == Len(replies[r])
    IN  /\ n > 0
        /\ \/ replies[r][n].kind = "error"
           \/ /\ HasCall(r, "identity") /\ n = 1
              /\ v[r] # Undef /\ ~v[r].ok
           \/ /\ HasCall(r, "inventory") /\ n = CallCount(r, "identity") + 1
              /\ g[r] # Undef /\ ~g[r].ok

\* C13: no retries: a request issues at most one call to the identity
\* service and at most one to the inventory service, and a failed call (a
\* result that is not ok, or a thrown error) is followed directly by the
\* request's final response, which is not a success, with no further
\* upstream call.
C13_NoRetries ==
    \A r \in Requests :
        /\ CallCount(r, "identity") <= 1
        /\ CallCount(r, "inventory") <= 1
        /\ LastCallFailed(r) =>
               /\ pc[r] = "done"
               /\ Len(resp[r]) = 1
               /\ resp[r][1].status \in {401, 500, 502}
               /\ CallCount(r, "identity") + CallCount(r, "inventory")
                      = Len(replies[r])

\* an open-chest request whose grant was not ok is answered 502 after one
\* identity call and one inventory call
C13_Witness ==
    /\ op[1] = "open-chest" /\ pc[1] = "done"
    /\ g[1] # Undef /\ ~g[1].ok
    /\ CallCount(1, "identity") = 1 /\ CallCount(1, "inventory") = 1
    /\ resp[1][1].status = 502

-----------------------------------------------------------------------------
(* C14, C15, C16: parseDropKeys *)

\* the tokens of a text: its chunks between ',' and ';', trimmed, the empty
\* ones left out
Tokens(text) ==
    LET chunks == Split(text)
    IN  {Trim(chunks[i]) : i \in 1..Len(chunks)} \ {""}

AllDigits(t) == Len(t) >= 1 /\ \A i \in 1..Len(t) : IsDigit(Char(t, i))

\* t is digits, spaces, '-', spaces, digits, the first digits ending at i
\* and the last ones starting at j
IsRangeAt(t, i, j) ==
    /\ AllDigits(SubSeq(t, 1, i))
    /\ AllDigits(SubSeq(t, j, Len(t)))
    /\ \E k \in (i + 1)..(j - 1) :
           /\ Char(t, k) = "-"
           /\ \A l \in ((i + 1)..(j - 1)) \ {k} : Char(t, l) = " "

IsRange(t) == \E i, j \in 1..Len(t) : IsRangeAt(t, i, j)

\* a bare non-negative integer
IsBareInteger(t) == AllDigits(t)

\* the integers a token of a well-formed text stands for: itself, or every
\* integer from a to b (none when a > b)
TokenIntegers(t) ==
    IF IsBareInteger(t) THEN {DigitsValue(t)}
    ELSE UNION {DigitsValue(SubSeq(t, 1, i)) .. DigitsValue(SubSeq(t, j, Len(t))) :
                    <<i, j>> \in {p \in (1..Len(t)) \X (1..Len(t)) :
                                     IsRangeAt(t, p[1], p[2])}}

\* the text is made of bare non-negative integers and ranges only
WellFormed(text) == \A t \in Tokens(text) : IsBareInteger(t) \/ IsRange(t)

StrictlyAscending(keys) ==
    \A i \in 1..(Len(keys) - 1) : LessThan(keys[i], keys[i + 1])

Elements(keys) == {keys[i] : i \in 1..Len(keys)}

\* C14: for every text made of bare non-negative integers and ranges a-b
\* separated by ',' or ';' (tokens trimmed, empty tokens skipped),
\* parseDropKeys returns exactly the strictly ascending, duplicate-free
\* sequence of the union of the bare integers and of every integer from a to
\* b for each range with a <= b; a range with a > b contributes nothing.
C14_IntegersAndRanges ==
    (booted /\ envDropKeys.t = "string" /\ WellFormed(envDropKeys.s)) =>
        /\ StrictlyAscending(DROP_KEYS)
        /\ Elements(DROP_KEYS) =
               {Num(n) : n \in UNION {TokenIntegers(t) : t \in Tokens(envDropKeys.s)}}

\* a text with both separators, padded tokens, an overlapping range, a
\* repeated integer and an inverted range has been parsed
C14_Witness ==
    /\ booted
    /\ envDropKeys = Str("7, 3 - 5;5;12-9")
    /\ DROP_KEYS = <<Num(3), Num(4), Num(5), Num(7)>>

\* C15: for every text, every token that is neither a range nor a bare
\* non-negative integer contributes nothing, so every element of the output
\* is a non-negative integer.
C15_OnlyNonNegativeIntegers ==
    (booted /\ envDropKeys.t = "string") =>
        /\ \A i \in 1..Len(DROP_KEYS) :
               Decimals(DROP_KEYS[i]) = 0 /\ Mantissa(DROP_KEYS[i]) >= 0
        /\ Elements(DROP_KEYS) =
               {Num(n) : n \in UNION {TokenIntegers(t) :
                                t \in {u \in Tokens(envDropKeys.s) :
                                          IsBareInteger(u) \/ IsRange(u)}}}

\* the digits of n >= 0 padded with zeros on the left to width w
RECURSIVE Padded(_, _)
Padded(n, w) ==
    IF w = 0 THEN "" ELSE Padded(n \div 10, w - 1) \o Digit[(n % 10) + 1]

\* the text of a number in a joined array: the sign, the integer part and,
\* for a number with decimals, a point and the decimals (the plain notation,
\* which the numbers of the model's texts all have)
NumberText(x) ==
    LET m == Mantissa(x)
        d == Decimals(x)
        a == IF m < 0 THEN 0 - m ELSE m
    IN  (IF m < 0 THEN "-" ELSE "")
            \o NumToString(a \div Pow10(d))
            \o (IF d = 0 THEN "" ELSE "." \o Padded(a % Pow10(d), d))

\* keys.join(',')
RECURSIVE JoinKeys(_)
JoinKeys(keys) ==
    IF Len(keys) = 0 THEN ""
    ELSE IF Len(keys) = 1 THEN NumberText(keys[1])
    ELSE NumberText(keys[1]) \o "," \o JoinKeys(Tail(keys))

\* C16: parsing is idempotent: for every text s, parsing the
\* separator-joined text of parseDropKeys(s) reproduces exactly the sequence
\* parseDropKeys(s).
C16_Idempotent ==
    booted => parseDropKeys(Str(JoinKeys(DROP_KEYS))) = DROP_KEYS

\* the documentation's text has been parsed, its output joined is another
\* text, and parsing that gives the output again
C16_Witness ==
    /\ booted
    /\ envDropKeys = Str("10001,10002;10003-10010,10050")
    /\ JoinKeys(DROP_KEYS) =
           "10001,10002,10003,10004,10005,10006,10007,10008,10009,10010,10050"
    /\ parseDropKeys(Str(JoinKeys(DROP_KEYS))) = DROP_KEYS

-----------------------------------------------------------------------------
(* C17 *)

\* the inventory service has answered the grant call of request r with a
\* reply (axios has not thrown) and grantItem has run on it
GrantReplied(r) ==
    /\ HasCall(r, "inventory")
    /\ pc[r] = "done"
    /\ replies[r][Len(replies[r])].kind = "data"

\* C17: for every inventory-service reply, including an item_json string
\* that parses to a JSON value that is not a list (null, a number, a string,
\* an object), the grant issuer returns a GrantResult without raising, and
\* its items field is a sequence of item records (possibly empty).
C17_GrantResultWithItemList ==
    \A r \in Requests :
        GrantReplied(r) =>
            /\ caught[r] = Undef
            /\ g[r] # Undef
            /\ g[r].items.t = "array"

-----------------------------------------------------------------------------
(* C18 *)

\* the calls request r has issued to service svc
CallsTo(r, svc) == {calls[r][i] : i \in {j \in 1..Len(calls[r]) : calls[r][j].svc = svc}}

\* C18: in open-chest, whenever a grant call is issued, the steamid that
\* receives the grant equals the steamid the identity service returned for
\* that request's ticket: no request can cause a grant to a user other than
\* the one its ticket authenticates.
C18_GrantToAuthenticatedUser ==
    \A r \in Requests :
        op[r] = "open-chest" =>
            \A c \in CallsTo(r, "inventory") :
                /\ replies[r] # <<>>
                /\ replies[r][1].kind = "data"
                /\ IdentityReplyOf(r).result = Str("OK")
                /\ IdentityReplyOf(r).steamid.t = "string"
                /\ c.steamid = IdentityReplyOf(r).steamid

\* an open-chest request of s2 whose ticket the identity service
\* authenticates as s2 has issued its grant call, to s2
C18_Witness ==
    /\ op[1] = "open-chest"
    /\ body[1].steamid = Str("s2")
    /\ replies[1] # <<>>
    /\ replies[1][1].kind = "data"
    /\ replies[1][1].data.steamid = Str("s2")
    /\ \E c \in CallsTo(1, "inventory") : c.steamid = Str("s2")

-----------------------------------------------------------------------------
(* C19 *)

\* C19: in open-chest, the application id sent to the inventory service in
\* the grant call is always the configured application id, whatever appid
\* the request carried; the request's appid is used only for the
\* identity-service call, so a ticket may be verified against one
\* application id and the grant issued against another.
C19_GrantUsesConfiguredAppid ==
    \A r \in Requests :
        op[r] = "open-chest" =>
            /\ \A c \in CallsTo(r, "inventory") : c.appid = String(APPID)
            /\ \A c \in CallsTo(r, "identity") : c.appid = Number(body[r].appid)

\* a ticket verified against application 730 and the grant issued against
\* the configured application 480
C19_Witness ==
    /\ op[1] = "open-chest"
    /\ APPID = Num(480)
    /\ body[1].appid = Str("730")
    /\ \E c \in CallsTo(1, "identity") : c.appid = Num(730)
    /\ \E c \in CallsTo(1, "inventory") : c.appid = Str("480")

====
